---- MODULE Spec2Model ----
(***************************************************************************)
(* mpdspl: playlists computed by a rule script from genre tags, label rule *)
(* files and stored playlists, then synchronised to an MPD server.         *)
(*                                                                         *)
(* A path is the sequence of its components (pathlib.Path(...).parts); the *)
(* library root '.' is the empty sequence.  A track index is 0-based, as   *)
(* enumerate() gives it.                                                   *)
(***************************************************************************)
EXTENDS Integers, Sequences, FiniteSets, TLC

VARIABLES
    \* ---- the MPD server and the music directory
    mpdDb,                \* listall()/find(): path -> genre tag, for the files of the database
    mpdPlaylists,         \* stored playlists: name -> sequence of paths
    mpdBatch,             \* the command list of this client: whether one is open, and its commands
    labelFiles,           \* the .label.<name>.yml files under the music root, in traversal order
    updating_db,          \* status()["updating_db"] is present
    idle_events,          \* an "update" event is pending for idle("update")
    changes,              \* changes made from outside so far: updates, edits, other clients
    mpdDenied,            \* playlist names listplaylist fails for although they may be stored
    \* ---- one cycle of generate_all
    pc,                   \* where main() is
    all_track_paths,      \* sorted(listall())
    genre_cache,          \* GenreAccessor._cache
    label_cache,          \* LabelAccessor._cache
    playlist_cache,       \* PlaylistAccessor._cache
    frozen_keys,          \* PlaylistAccessor.__frozen_keys
    generated_playlists,  \* the dict of generate_all, in insertion order
    atbp_cached,          \* LabelAccessor.__all_tracks_by_path has been computed
    sync,                 \* the locals of the loop of generate_all over generated_playlists
    \* ---- the script, and what was observed (history)
    script,               \* the statements the rule script executed in the first cycle
    ip,                   \* statements executed in this cycle
    cycle,                \* cycles started
    last,                 \* the last statement and how it ended
    attempted,            \* playlist names a read was attempted on in this cycle
    resolutions,          \* per accessor and name: successful _lookup calls in this cycle
    first_value,          \* per accessor and name: the value of the first successful _lookup
    calls,                \* the mutating calls and batch marks sent by this cycle's sync
    prev_calls,           \* the same of the cycle before
    foreign,              \* another client changed a stored playlist since this cycle's sync began
    written,              \* playlist names the script assigned in this cycle
    heard,                \* what main() has learnt since generate_all returned, in order
    script_read           \* playlist names read by the script that returned last

vars == <<mpdDb, mpdPlaylists, mpdBatch, labelFiles, updating_db, idle_events, changes,
          pc, all_track_paths, genre_cache, label_cache, playlist_cache, frozen_keys,
          generated_playlists, atbp_cached, sync,
          script, ip, cycle, last, attempted, resolutions, first_value, calls, prev_calls,
          foreign, mpdDenied, written, heard, script_read>>

envVars == <<mpdDb, mpdPlaylists, mpdBatch, labelFiles, updating_db, idle_events, changes,
             mpdDenied>>
cycleVars == <<all_track_paths, genre_cache, label_cache, playlist_cache, frozen_keys,
               generated_playlists, atbp_cached>>

(***************************************************************************)
(* Paths                                                                   *)
(***************************************************************************)

\* The component names in use, in Python's str order (code points).
Components == <<"1.mp3", "2.mp3", "3.mp3", "a", "b", "c">>

Rank(s) == CHOOSE i \in 1..Len(Components) : Components[i] = s

Min(a, b) == IF a < b THEN a ELSE b

\* pathlib's p < q: the parts compared as tuples.
PathLess(p, q) ==
    \E k \in 0..Min(Len(p), Len(q)) :
        /\ \A j \in 1..k : p[j] = q[j]
        /\ \/ k = Len(p) /\ k < Len(q)
           \/ k < Len(p) /\ k < Len(q) /\ Rank(p[k + 1]) < Rank(q[k + 1])

\* sorted(S) for a set of paths.
RECURSIVE Sorted(_)
Sorted(S) ==
    IF S = {} THEN <<>>
    ELSE LET m == CHOOSE x \in S : \A y \in S \ {x} : PathLess(x, y)
         IN  <<m>> \o Sorted(S \ {m})

\* p is P or lies under P.
IsPrefix(P, p) == Len(P) <= Len(p) /\ SubSeq(p, 1, Len(P)) = P

Range(s) == {s[i] : i \in 1..Len(s)}

(***************************************************************************)
(* The track catalog of a cycle                                            *)
(***************************************************************************)

\* m.listall(): the files of the database.
MpdListAll == DOMAIN mpdDb

\* range(len(all_track_paths))
all_tracks == 0..(Len(all_track_paths) - 1)

\* all_track_paths[i]
PathOf(i) == all_track_paths[i + 1]

\* map_path_to_idx.get(p): the index, or None.
P2I(p) ==
    IF \E k \in 1..Len(all_track_paths) : all_track_paths[k] = p
    THEN (CHOOSE k \in 1..Len(all_track_paths) : all_track_paths[k] = p) - 1
    ELSE -1

\* [p2i.get(x) for x in raw], the None dropped, in order.
RECURSIVE KnownIdxs(_)
KnownIdxs(raw) ==
    IF raw = <<>> THEN <<>>
    ELSE (IF P2I(Head(raw)) >= 0 THEN <<P2I(Head(raw))>> ELSE <<>>) \o KnownIdxs(Tail(raw))

(***************************************************************************)
(* Values a script handles: a frozenset of indices or a tuple of indices   *)
(***************************************************************************)

SetVal(S) == [kind |-> "set", set |-> S, seq |-> <<>>]
SeqVal(s) == [kind |-> "seq", set |-> {}, seq |-> s]
NoVal == [kind |-> "none", set |-> {}, seq |-> <<>>]

(***************************************************************************)
(* What a call returns: exc is "none" or the exception it raised           *)
(***************************************************************************)

Returned(v) == [exc |-> "none", val |-> v]
Raised(e) == [exc |-> e, val |-> NoVal]

\* KeyError and IndexError are LookupErrors: "except LookupError" catches all three.
LookupErrors == {"LookupError", "KeyError", "IndexError"}

(***************************************************************************)
(* GenreAccessor._lookup                                                   *)
(***************************************************************************)

\* m.find("(Genre == '<arg>')"): the files of the database tagged arg.
MpdFind(arg) == {p \in DOMAIN mpdDb : mpdDb[p] = arg}

\* A _lookup that treats an empty answer of the server as a missing name.
GenreLookupOrRaise(arg) ==
    IF MpdFind(arg) = {} THEN Raised("LookupError")
    ELSE Returned(SetVal({P2I(p) : p \in MpdFind(arg)} \ {-1}))

GenreLookup(arg) ==
    Returned(SetVal({P2I(p) : p \in MpdFind(arg)} \ {-1}))

(***************************************************************************)
(* PlaylistAccessor._lookup                                                *)
(***************************************************************************)

\* m.listplaylist(name): the stored paths, or a CommandError: when there is none ("No
\* such playlist"), and when the server fails for another reason (a name it refuses, a
\* command the client has no permission for, a file it cannot read).
MpdListPlaylist(name) ==
    IF name \in DOMAIN mpdPlaylists /\ name \notin mpdDenied
    THEN [exc |-> "none", paths |-> mpdPlaylists[name]]
    ELSE [exc |-> "CommandError", paths |-> <<>>]

PlaylistLookup(arg) ==
    LET raw_result == MpdListPlaylist(arg)
    IN  IF raw_result.exc = "CommandError"
        THEN Raised("LookupError")
        ELSE Returned(SeqVal(KnownIdxs(raw_result.paths)))

(***************************************************************************)
(* LabelAccessor                                                           *)
(***************************************************************************)

\* p and p.parents, for a relative path: every prefix of p, '.' included.
SelfAndParents(p) == {SubSeq(p, 1, k) : k \in 0..Len(p)}

\* __all_tracks_by_path: a plain dict, keyed by the tracks and their ancestors only.
AllTracksByPath ==
    [P \in UNION {SelfAndParents(PathOf(i)) : i \in all_tracks} |->
        {i \in all_tracks : P \in SelfAndParents(PathOf(i))}]

\* music_root.rglob('.label.<arg>.yml'), in the traversal order of the file system.
RGlob(arg) == SelectSeq(labelFiles, LAMBDA f : f.label = arg)

\* "for p in given_list: result -= all_tracks_by_path[tag_file_dir / p]" (and |= when adding):
\* a subpath that is no key of the dict raises KeyError.
RECURSIVE ApplyGivenList(_, _, _, _)
ApplyGivenList(dir, given, adding, result) ==
    IF given = <<>> THEN Returned(SetVal(result))
    ELSE LET P == dir \o Head(given)
         IN  IF P \notin DOMAIN AllTracksByPath THEN Raised("KeyError")
             ELSE ApplyGivenList(dir, Tail(given), adding,
                                 IF adding THEN result \cup AllTracksByPath[P]
                                 ELSE result \ AllTracksByPath[P])

\* The body of the loop with "result = ..." where line 109 has "result |= ...".
ApplyTagFileAssigns(f, result) ==
    IF f.content = <<>> THEN Raised("KeyError")
    ELSE IF Len(f.content) > 1 THEN Raised("AssertionError")
    ELSE LET key == f.content[1].key
             given == IF f.content[1].is_none THEN <<>> ELSE f.content[1].list
         IN  IF key \in {"all_except", "none_except"} /\ f.dir \notin DOMAIN AllTracksByPath
             THEN Raised("KeyError")
             ELSE IF key = "all_except"
             THEN ApplyGivenList(f.dir, given, FALSE, AllTracksByPath[f.dir])
             ELSE IF key = "none_except"
             THEN ApplyGivenList(f.dir, given, TRUE, result \ AllTracksByPath[f.dir])
             ELSE Returned(SetVal(result))

\* The body of the loop over the tag files, for one file.
ApplyTagFile(f, result) ==
    IF f.content = <<>> THEN Raised("KeyError")                        \* popitem() of {}
    ELSE IF Len(f.content) > 1 THEN Raised("AssertionError")           \* assert len(...) == 0
    ELSE LET key == f.content[1].key
             given == IF f.content[1].is_none THEN <<>> ELSE f.content[1].list
         IN  IF key \in {"all_except", "none_except"} /\ f.dir \notin DOMAIN AllTracksByPath
             THEN Raised("KeyError")
             ELSE IF key = "all_except"
             THEN ApplyGivenList(f.dir, given, FALSE, result \cup AllTracksByPath[f.dir])
             ELSE IF key = "none_except"
             THEN ApplyGivenList(f.dir, given, TRUE, result \ AllTracksByPath[f.dir])
             ELSE Returned(SetVal(result))

RECURSIVE ApplyTagFiles(_, _)
ApplyTagFiles(files, result) ==
    IF files = <<>> THEN Returned(SetVal(result))
    ELSE LET r == ApplyTagFile(Head(files), result)
         IN  IF r.exc # "none" THEN r ELSE ApplyTagFiles(Tail(files), r.val.set)

LabelLookup(arg) ==
    LET files == RGlob(arg)
    IN  IF files = <<>> THEN Raised("LookupError")                     \* not label_found
        ELSE ApplyTagFiles(files, {})

(***************************************************************************)
(* DbAccessor.__getitem__ and __getattr__                                  *)
(***************************************************************************)

\* A __getitem__ that calls _lookup every time and keeps nothing.
DbGetItemUncached(cache, arg, found) ==
    [exc |-> IF found.exc \in LookupErrors THEN "IndexError" ELSE found.exc,
     val |-> found.val, cache |-> cache, looked |-> TRUE]

\* The result of accessor[arg] on a cache, `found` being what _lookup(arg) gives:
\* what is returned or raised, the cache afterwards, and whether _lookup was called.
DbGetItem(cache, arg, found) ==
    IF arg \in DOMAIN cache
    THEN [exc |-> "none", val |-> cache[arg], cache |-> cache, looked |-> FALSE]
    ELSE IF found.exc = "none"
    THEN [exc |-> "none", val |-> found.val, cache |-> (arg :> found.val) @@ cache,
          looked |-> TRUE]
    ELSE [exc |-> IF found.exc \in LookupErrors THEN "IndexError" ELSE found.exc,
          val |-> NoVal, cache |-> cache, looked |-> TRUE]

\* accessor.arg
DbGetAttr(cache, arg, found) ==
    LET r == DbGetItem(cache, arg, found)
    IN  IF r.exc \in LookupErrors THEN [r EXCEPT !.exc = "AttributeError"] ELSE r

DbGet(form, cache, arg, found) ==
    IF form = "attr" THEN DbGetAttr(cache, arg, found) ELSE DbGetItem(cache, arg, found)

(***************************************************************************)
(* The names a script uses, and the statements of a script                 *)
(***************************************************************************)

PlaylistNames == {"p", "q"}
GenreNames == {"rock", "jazz"}
LabelNames == {"foo", "bar"}
Names == PlaylistNames \cup GenreNames \cup LabelNames
Accessors == {"genre", "label", "playlist"}
Forms == {"item", "attr"}

\* Statements a script runs in one cycle.
MaxStatements == 3

\* tuple(reversed(range(n)))
Descending(n) == [j \in 1..n |-> n - j]

\* What a script assigns besides what it has read: every track, no track, and every
\* track in descending order of index.
Values == {SetVal(all_tracks), SetVal({}), SeqVal(Descending(Len(all_track_paths)))}

\* accessor[name] or accessor.name; playlist[name] = value; and playlist[name] = <what
\* the statement before returned>.
Statements ==
    [op : {"genre"}, form : Forms, name : GenreNames, val : {NoVal}]
      \cup [op : {"label"}, form : Forms, name : LabelNames, val : {NoVal}]
      \cup [op : {"playlist"}, form : Forms, name : PlaylistNames, val : {NoVal}]
      \cup [op : {"write"}, form : {"item"}, name : PlaylistNames, val : Values]
      \cup [op : {"copy"}, form : {"item"}, name : PlaylistNames, val : {NoVal}]

NoStatement == [op |-> "none", form |-> "item", name |-> "", exc |-> "none",
                val |-> NoVal, looked |-> FALSE]

NoSync == [i |-> 0, stage |-> "none", track_names |-> <<>>, old_track_names |-> <<>>,
           already_exists |-> FALSE, k |-> 0]

(***************************************************************************)
(* generate_all, up to the script                                          *)
(***************************************************************************)

\* A catalog listed once, by the first cycle, and used by every cycle after it.
StaleCatalog == IF cycle = 0 THEN Sorted(MpdListAll) ELSE all_track_paths

\* Line 131: sorted(... m.listall() ...)
FreshCatalog == Sorted(MpdListAll)

\* A dict that outlives the call of generate_all.
KeptGenerated == generated_playlists

\* Line 134: generated_playlists = dict()
FreshGenerated == <<>>

\* Lines 131-141: the catalog, and fresh accessors and generated_playlists.
GenerateStart ==
    /\ pc = "generate"
    /\ all_track_paths' = FreshCatalog
    /\ genre_cache' = <<>>
    /\ label_cache' = <<>>
    /\ playlist_cache' = <<>>
    /\ frozen_keys' = {}
    /\ generated_playlists' = FreshGenerated
    /\ atbp_cached' = FALSE
    /\ pc' = "script"
    /\ ip' = 0
    /\ cycle' = cycle + 1
    /\ last' = NoStatement
    /\ attempted' = {}
    /\ resolutions' = [a \in Accessors |-> [n \in Names |-> 0]]
    /\ first_value' = [a \in Accessors |-> [n \in Names |-> NoVal]]
    /\ calls' = <<>>
    /\ prev_calls' = calls
    /\ foreign' = FALSE
    /\ written' = {}
    /\ heard' = <<>>
    /\ UNCHANGED <<envVars, sync, script, script_read>>

\* A main() that catches what generate_all raises and goes on to wait for an update.
ScriptGoesOnMainCatches(exc) ==
    /\ pc' \in (IF exc = "none" THEN {"script"} ELSE {"script", "idle"})
    /\ ip' = ip + 1

\* An exception in the script is caught by the script, or leaves exec(), generate_all and
\* main: the process ends.
ScriptGoesOn(exc) ==
    /\ pc' \in (IF exc = "none" THEN {"script"} ELSE {"script", "terminated"})
    /\ ip' = ip + 1

\* What the statement did, for the properties.
Observed(acc, form, arg, r) ==
    /\ last' = [op |-> acc, form |-> form, name |-> arg, exc |-> r.exc, val |-> r.val,
                looked |-> r.looked]
    /\ resolutions' = IF r.looked /\ r.exc = "none"
                      THEN [resolutions EXCEPT ![acc][arg] = @ + 1]
                      ELSE resolutions
    /\ first_value' = IF r.looked /\ r.exc = "none" /\ resolutions[acc][arg] = 0
                      THEN [first_value EXCEPT ![acc][arg] = r.val]
                      ELSE first_value

\* genre[arg], genre.arg
GenreGet(arg, form) ==
    LET r == DbGet(form, genre_cache, arg, GenreLookup(arg))
    IN  /\ genre_cache' = r.cache
        /\ Observed("genre", form, arg, r)
        /\ ScriptGoesOn(r.exc)
        /\ UNCHANGED <<envVars, all_track_paths, label_cache, playlist_cache, frozen_keys,
                       generated_playlists, atbp_cached, sync, cycle, heard, script_read,
                       attempted, written, calls, foreign, prev_calls>>

\* label[arg], label.arg; _lookup reads the cached property before anything else.
LabelGet(arg, form) ==
    LET r == DbGet(form, label_cache, arg, LabelLookup(arg))
    IN  /\ label_cache' = r.cache
        /\ atbp_cached' = (atbp_cached \/ r.looked)
        /\ Observed("label", form, arg, r)
        /\ ScriptGoesOn(r.exc)
        /\ UNCHANGED <<envVars, all_track_paths, genre_cache, playlist_cache, frozen_keys,
                       generated_playlists, sync, cycle, heard, script_read, attempted, written,
                       calls, foreign, prev_calls>>

\* A __getitem__ that freezes the key only when the read returned.
PlaylistFreezeOnReturn(arg) ==
    IF arg \in DOMAIN playlist_cache \/ PlaylistLookup(arg).exc = "none"
    THEN frozen_keys \cup {arg}
    ELSE frozen_keys

\* PlaylistAccessor.__getitem__: the key is frozen in the finally clause.
PlaylistFreeze(arg) == frozen_keys \cup {arg}

\* playlist[arg], playlist.arg
PlaylistGet(arg, form) ==
    LET r == DbGet(form, playlist_cache, arg, PlaylistLookup(arg))
    IN  /\ playlist_cache' = r.cache
        /\ frozen_keys' = PlaylistFreeze(arg)
        /\ attempted' = attempted \cup {arg}
        /\ Observed("playlist", form, arg, r)
        /\ ScriptGoesOn(r.exc)
        /\ UNCHANGED <<envVars, all_track_paths, genre_cache, label_cache, generated_playlists,
                       atbp_cached, sync, cycle, heard, script_read, written, calls, foreign,
                       prev_calls>>

\* generated_playlists[key] = value: a new key goes last, a known key keeps its place.
DictSet(d, key, value) ==
    IF \E j \in 1..Len(d) : d[j].name = key
    THEN [j \in 1..Len(d) |-> IF d[j].name = key THEN [name |-> key, value |-> value] ELSE d[j]]
    ELSE Append(d, [name |-> key, value |-> value])

\* A __setitem__ that assigns before it looks at the frozen keys.
PlaylistSetItemThenCheck(key, value) ==
    [exc |-> IF key \in frozen_keys THEN "KeyError" ELSE "none",
     generated |-> DictSet(generated_playlists, key, value),
     cache |-> (key :> value) @@ playlist_cache]

\* A __setitem__ that records the output and leaves the cache alone.
PlaylistSetItemNoCache(key, value) ==
    IF key \in frozen_keys
    THEN [exc |-> "KeyError", generated |-> generated_playlists, cache |-> playlist_cache]
    ELSE [exc |-> "none", generated |-> DictSet(generated_playlists, key, value),
          cache |-> playlist_cache]

\* PlaylistAccessor.__setitem__: what is raised, and the three containers afterwards.
PlaylistSetItem(key, value) ==
    IF key \in frozen_keys
    THEN [exc |-> "KeyError", generated |-> generated_playlists, cache |-> playlist_cache]
    ELSE [exc |-> "none", generated |-> DictSet(generated_playlists, key, value),
          cache |-> (key :> value) @@ playlist_cache]

\* playlist[key] = value
PlaylistSet(key, value) ==
    LET r == PlaylistSetItem(key, value)
    IN  /\ generated_playlists' = r.generated
        /\ playlist_cache' = r.cache
        /\ last' = [op |-> "write", form |-> "item", name |-> key, exc |-> r.exc,
                    val |-> value, looked |-> FALSE]
        /\ written' = IF r.exc = "none" THEN written \cup {key} ELSE written
        /\ ScriptGoesOn(r.exc)
        /\ UNCHANGED <<envVars, all_track_paths, genre_cache, label_cache, frozen_keys,
                       atbp_cached, sync, cycle, heard, script_read, attempted, resolutions,
                       first_value, calls, foreign, prev_calls>>

\* One statement of the script.
Exec(st) ==
    \/ st.op = "genre" /\ GenreGet(st.name, st.form)
    \/ st.op = "label" /\ LabelGet(st.name, st.form)
    \/ st.op = "playlist" /\ PlaylistGet(st.name, st.form)
    \/ st.op = "write" /\ PlaylistSet(st.name, st.val)
    \/ /\ st.op = "copy"
       /\ last.op \in Accessors /\ last.exc = "none"
       /\ PlaylistSet(st.name, last.val)

(***************************************************************************)
(* The server's stored playlists and the command list                      *)
(***************************************************************************)

\* The play queue of the server, which save() stores under a name.
MpdQueue == <<<<"a", "1.mp3">>>>

\* One mutating command on the stored playlists.
MpdApply(pls, c) ==
    IF c.cmd = "save" THEN (c.name :> MpdQueue) @@ pls
    ELSE IF c.cmd = "playlistclear" THEN (c.name :> <<>>) @@ pls
    ELSE IF c.cmd = "playlistadd"
    THEN (c.name :> Append(IF c.name \in DOMAIN pls THEN pls[c.name] ELSE <<>>, c.arg)) @@ pls
    ELSE pls

RECURSIVE MpdApplyAll(_, _)
MpdApplyAll(pls, cs) ==
    IF cs = <<>> THEN pls ELSE MpdApplyAll(MpdApply(pls, Head(cs)), Tail(cs))

Cmd(cmd, name, arg) == [cmd |-> cmd, name |-> name, arg |-> arg]

\* A begin that opens no command list: what follows runs command by command.
MpdBeginOpensNothing ==
    /\ mpdBatch' = mpdBatch
    /\ mpdPlaylists' = mpdPlaylists
    /\ calls' = Append(calls, Cmd("begin", "", <<>>))

\* m.command_list_ok_begin()
MpdBegin ==
    /\ mpdBatch' = [open |-> TRUE, cmds |-> <<>>]
    /\ mpdPlaylists' = mpdPlaylists
    /\ calls' = Append(calls, Cmd("begin", "", <<>>))

\* m.save, m.playlistclear, m.playlistadd: queued while a command list is open, run at
\* once otherwise.
MpdSend(c) ==
    /\ IF mpdBatch.open
       THEN /\ mpdBatch' = [mpdBatch EXCEPT !.cmds = Append(@, c)]
            /\ mpdPlaylists' = mpdPlaylists
       ELSE /\ mpdBatch' = mpdBatch
            /\ mpdPlaylists' = MpdApply(mpdPlaylists, c)
    /\ calls' = Append(calls, c)

\* m.command_list_end(): the server runs the queued commands as one.
MpdEnd ==
    /\ mpdPlaylists' = MpdApplyAll(mpdPlaylists, mpdBatch.cmds)
    /\ mpdBatch' = [open |-> FALSE, cmds |-> <<>>]
    /\ calls' = Append(calls, Cmd("end", "", <<>>))

(***************************************************************************)
(* generate_all, the loop over generated_playlists                         *)
(***************************************************************************)

\* sorted(track_idxs), for a set of indices.
RECURSIVE SortedIdxs(_)
SortedIdxs(S) ==
    IF S = {} THEN <<>>
    ELSE LET m == CHOOSE x \in S : \A y \in S : x <= y
         IN  <<m>> \o SortedIdxs(S \ {m})

\* Lines 144-146 without the isinstance test: every value sorted.
TrackNamesAlwaysSorted(track_idxs) ==
    LET idxs == SortedIdxs(IF track_idxs.kind = "set" THEN track_idxs.set
                           ELSE Range(track_idxs.seq))
    IN  [j \in 1..Len(idxs) |-> PathOf(idxs[j])]

\* Lines 144-146: the paths to send, from the value the script assigned.
TrackNames(track_idxs) ==
    LET idxs == IF track_idxs.kind = "set" THEN SortedIdxs(track_idxs.set)
                ELSE track_idxs.seq
    IN  [j \in 1..Len(idxs) |-> PathOf(idxs[j])]

\* Lines 156-171 without the comparison: whatever is computed is sent.
SyncBranchAlwaysSends(already_exists, track_names, old_track_names) ==
    IF ~already_exists /\ track_names = <<>> THEN "empty" ELSE "send"

\* Lines 156-171 with a first test that leaves out "and not track_names".
SyncBranchEmptyWhenAbsent(already_exists, track_names, old_track_names) ==
    IF ~already_exists THEN "empty"
    ELSE IF track_names # old_track_names THEN "send"
    ELSE "nochange"

\* Lines 156-171: what the loop does about one playlist.
SyncBranch(already_exists, track_names, old_track_names) ==
    IF ~already_exists /\ track_names = <<>> THEN "empty"
    ELSE IF track_names # old_track_names THEN "send"
    ELSE "nochange"

syncUnchanged == <<updating_db, idle_events, changes, mpdDb, mpdDenied, labelFiles, cycleVars,
                   script, ip, cycle, heard, script_read, last, attempted, written, resolutions,
                   first_value, foreign, prev_calls>>

\* The script returned: exec() is over, its globals and with them the three accessors are
\* gone, and the loop begins.
ScriptEnd ==
    /\ pc = "script"
    /\ pc' = "sync"
    /\ sync' = [NoSync EXCEPT !.i = 1, !.stage = "fetch"]
    /\ genre_cache' = <<>>
    /\ label_cache' = <<>>
    /\ playlist_cache' = <<>>
    /\ frozen_keys' = {}
    /\ atbp_cached' = FALSE
    /\ last' = NoStatement
    /\ attempted' = {}
    /\ script_read' = attempted
    /\ resolutions' = [a \in Accessors |-> [n \in Names |-> 0]]
    /\ first_value' = [a \in Accessors |-> [n \in Names |-> NoVal]]
    /\ UNCHANGED <<envVars, all_track_paths, generated_playlists, script, ip, cycle, heard,
                   written, calls, foreign, prev_calls>>

\* Lines 143-154: the next item, its paths, and what the server stores under the name.
SyncFetch ==
    /\ pc = "sync" /\ sync.stage = "fetch" /\ sync.i <= Len(generated_playlists)
    /\ LET item == generated_playlists[sync.i]
           old == MpdListPlaylist(item.name)
       IN  sync' = [sync EXCEPT !.stage = "decide",
                                !.track_names = TrackNames(item.value),
                                !.old_track_names = old.paths,
                                !.already_exists = (old.exc # "CommandError"),
                                !.k = 1]
    /\ UNCHANGED <<pc, mpdPlaylists, mpdBatch, calls, syncUnchanged>>

SyncName == generated_playlists[sync.i].name

\* Lines 156-158 and 162-164: command_list_ok_begin() of the branch taken.
SyncBegin ==
    /\ pc = "sync" /\ sync.stage = "decide"
    /\ LET b == SyncBranch(sync.already_exists, sync.track_names, sync.old_track_names)
       IN  /\ b \in {"empty", "send"}
           /\ sync' = [sync EXCEPT !.stage = IF b = "empty" THEN "save"
                                             ELSE IF sync.already_exists THEN "clear"
                                             ELSE "add"]
    /\ MpdBegin
    /\ UNCHANGED <<pc, syncUnchanged>>

\* Line 159: m.save(name)
SyncSave ==
    /\ pc = "sync" /\ sync.stage = "save"
    /\ MpdSend(Cmd("save", SyncName, <<>>))
    /\ sync' = [sync EXCEPT !.stage = "clear_empty"]
    /\ UNCHANGED <<pc, syncUnchanged>>

\* Lines 160 and 166: m.playlistclear(name)
SyncClear ==
    /\ pc = "sync" /\ sync.stage \in {"clear_empty", "clear"}
    /\ MpdSend(Cmd("playlistclear", SyncName, <<>>))
    /\ sync' = [sync EXCEPT !.stage = IF sync.stage = "clear" THEN "add" ELSE "end"]
    /\ UNCHANGED <<pc, syncUnchanged>>

\* Lines 167-168: m.playlistadd(name, x), for the next x of track_names.
SyncAdd ==
    /\ pc = "sync" /\ sync.stage = "add" /\ sync.k <= Len(sync.track_names)
    /\ MpdSend(Cmd("playlistadd", SyncName, sync.track_names[sync.k]))
    /\ sync' = [sync EXCEPT !.k = @ + 1]
    /\ UNCHANGED <<pc, syncUnchanged>>

\* Lines 161 and 169: m.command_list_end(), and on to the next item.
SyncEnd ==
    /\ pc = "sync"
    /\ \/ sync.stage = "end"
       \/ sync.stage = "add" /\ sync.k > Len(sync.track_names)
    /\ MpdEnd
    /\ sync' = [sync EXCEPT !.stage = "fetch", !.i = @ + 1]
    /\ UNCHANGED <<pc, syncUnchanged>>

\* Lines 170-171: nothing to send.
SyncNoChange ==
    /\ pc = "sync" /\ sync.stage = "decide"
    /\ SyncBranch(sync.already_exists, sync.track_names, sync.old_track_names) = "nochange"
    /\ sync' = [sync EXCEPT !.stage = "fetch", !.i = @ + 1]
    /\ UNCHANGED <<pc, mpdPlaylists, mpdBatch, calls, syncUnchanged>>

\* The loop is over: generate_all returns, and main calls m.idle("update").
SyncDone ==
    /\ pc = "sync" /\ sync.stage = "fetch" /\ sync.i > Len(generated_playlists)
    /\ pc' = "idle"
    /\ sync' = [sync EXCEPT !.stage = "done"]
    /\ UNCHANGED <<mpdPlaylists, mpdBatch, calls, syncUnchanged>>

(***************************************************************************)
(* main: the wait for a library update                                     *)
(***************************************************************************)

\* Line 183: m.idle("update") returns once an update event is pending.
Idle ==
    /\ pc = "idle"
    /\ idle_events
    /\ idle_events' = FALSE
    /\ pc' = "status"
    /\ heard' = Append(heard, "notified")
    /\ UNCHANGED <<script_read, mpdDb, mpdDenied, mpdPlaylists, mpdBatch, labelFiles,
                   updating_db, changes, cycleVars, sync, script, ip, cycle, last, attempted,
                   written, resolutions, first_value, calls, foreign, prev_calls>>

\* Line 185 without the test: the inner loop is left after any update event.
StatusIgnoresScan(status_updating_db) == "generate"

\* Line 185 with a test that never succeeds: the inner loop is never left.
StatusNeverLeaves(status_updating_db) == "idle"

\* Line 185: m.status().get("updating_db", -1) == -1 leaves the inner loop.
StatusBranch(status_updating_db) == IF status_updating_db THEN "idle" ELSE "generate"

\* Lines 185-186: leave the inner loop unless the server is still scanning.
Status ==
    /\ pc = "status"
    /\ pc' = StatusBranch(updating_db)
    /\ heard' = Append(heard, IF updating_db THEN "scanning" ELSE "clear")
    /\ UNCHANGED <<script_read, envVars, cycleVars, sync, script, ip, cycle, last, attempted,
                   written, resolutions, first_value, calls, foreign, prev_calls>>

(***************************************************************************)
(* The world outside: the library, other clients, the rule files           *)
(***************************************************************************)

T1 == <<"a", "1.mp3">>
T2 == <<"a", "2.mp3">>
T3 == <<"b", "3.mp3">>

\* Changes made from outside in one run.
MaxChanges == 1

\* One .label.<label>.yml in directory dir; content is the mapping yaml.safe_load gives,
\* as its items in order; a value is null (is_none) or a list of subpaths.
TagFile(dir, label, content) == [dir |-> dir, label |-> label, content |-> content]
Item(key, is_none, list) == [key |-> key, is_none |-> is_none, list |-> list]

\* The databases, stored playlists and rule files the runs start from and change to.
Library == (T1 :> "rock") @@ (T3 :> "pop")
Libraries == {Library, (T2 :> "rock") @@ (T3 :> "rock")}
StoredContents == {<<T3, T1>>}
StoredPlaylists == {<<>>} \cup {("p" :> c) : c \in StoredContents}
RootRules == <<TagFile(<<>>, "foo", <<Item("all_except", FALSE, <<<<"a">>>>)>>)>>
RuleSets ==
    { RootRules,
      <<TagFile(<<"a">>, "foo", <<Item("none_except", FALSE, <<<<"1.mp3">>>>)>>)>> }

\* The server starts to scan the library: an "update" event.
UpdateStart ==
    /\ changes < MaxChanges
    /\ ~updating_db
    /\ updating_db' = TRUE
    /\ idle_events' = TRUE
    /\ changes' = changes + 1
    /\ UNCHANGED <<mpdDb, mpdDenied, mpdPlaylists, mpdBatch, labelFiles, pc, cycleVars, sync,
                   script, ip, cycle, heard, script_read, last, attempted, written, resolutions,
                   first_value, calls, foreign, prev_calls>>

\* The scan is over: the database is what the scan found, and another "update" event.
UpdateFinish ==
    /\ updating_db
    /\ updating_db' = FALSE
    /\ idle_events' = TRUE
    /\ mpdDb' \in Libraries
    /\ UNCHANGED <<mpdDenied, mpdPlaylists, mpdBatch, labelFiles, changes, pc, cycleVars, sync,
                   script, ip, cycle, heard, script_read, last, attempted, written, resolutions,
                   first_value, calls, foreign, prev_calls>>

\* Another client stores, replaces or removes a playlist; never between this client's
\* listplaylist of a name and the end of its command list for it.
ForeignPlaylist ==
    /\ changes < MaxChanges
    /\ pc = "sync" => sync.stage = "fetch"
    /\ \E n \in PlaylistNames :
          \/ \E c \in StoredContents :
                /\ ~(n \in DOMAIN mpdPlaylists /\ mpdPlaylists[n] = c)
                /\ mpdPlaylists' = (n :> c) @@ mpdPlaylists
          \/ /\ n \in DOMAIN mpdPlaylists
             /\ mpdPlaylists' = [m \in DOMAIN mpdPlaylists \ {n} |-> mpdPlaylists[m]]
    /\ changes' = changes + 1
    /\ foreign' = (foreign \/ pc \in {"sync", "idle", "status"})
    /\ UNCHANGED <<mpdDb, mpdDenied, mpdBatch, labelFiles, updating_db, idle_events, pc,
                   cycleVars, sync, script, ip, cycle, heard, script_read, last, attempted,
                   written, resolutions, first_value, calls, prev_calls>>

\* Someone edits the rule files under the music root.
EditLabelFiles ==
    /\ changes < MaxChanges
    /\ labelFiles' \in RuleSets \ {labelFiles}
    /\ changes' = changes + 1
    /\ UNCHANGED <<mpdDb, mpdDenied, mpdPlaylists, mpdBatch, updating_db, idle_events, pc,
                   cycleVars, sync, script, ip, cycle, heard, script_read, last, attempted,
                   written, resolutions, first_value, calls, foreign, prev_calls>>

(***************************************************************************)
(* The program: main() after connect, against a changing world             *)
(***************************************************************************)

\* The state main() enters its loop in, for a given world.
StartWith(db, pls, files, denied) ==
    /\ mpdDb = db
    /\ mpdPlaylists = pls
    /\ mpdBatch = [open |-> FALSE, cmds |-> <<>>]
    /\ labelFiles = files
    /\ updating_db = FALSE
    /\ idle_events = FALSE
    /\ changes = 0
    /\ pc = "generate"
    /\ all_track_paths = <<>>
    /\ genre_cache = <<>>
    /\ label_cache = <<>>
    /\ playlist_cache = <<>>
    /\ frozen_keys = {}
    /\ generated_playlists = <<>>
    /\ atbp_cached = FALSE
    /\ sync = NoSync
    /\ script = <<>>
    /\ ip = 0
    /\ cycle = 0
    /\ last = NoStatement
    /\ attempted = {}
    /\ resolutions = [a \in Accessors |-> [n \in Names |-> 0]]
    /\ first_value = [a \in Accessors |-> [n \in Names |-> NoVal]]
    /\ calls = <<>>
    /\ prev_calls = <<>>
    /\ foreign = FALSE
    /\ mpdDenied = denied
    /\ written = {}
    /\ heard = <<>>
    /\ script_read = {}

\* The same, with a server that answers every listplaylist.
Start(db, pls, files) == StartWith(db, pls, files, {})

Init ==
    \E pls \in StoredPlaylists, files \in RuleSets : Start(Library, pls, files)

\* The script runs its next statement, whatever it is.
RunStatement ==
    /\ pc = "script"
    /\ ip < MaxStatements
    /\ \E st \in Statements : Exec(st)
    /\ UNCHANGED script

\* One cycle, from the catalog to the end of the loop over generated_playlists, the world
\* changing under the script.
WhileScriptRuns == pc = "script"

Next ==
    \/ GenerateStart
    \/ RunStatement
    \/ ScriptEnd
    \/ SyncFetch
    \/ SyncBegin
    \/ SyncSave
    \/ SyncClear
    \/ SyncAdd
    \/ SyncEnd
    \/ SyncNoChange
    \/ SyncDone
    \/ WhileScriptRuns /\ UpdateStart
    \/ WhileScriptRuns /\ UpdateFinish
    \/ WhileScriptRuns /\ ForeignPlaylist
    \/ WhileScriptRuns /\ EditLabelFiles

Spec == Init /\ [][Next]_vars

(***************************************************************************)
(* Label resolution alone: one rule file for "foo", over every catalog      *)
(***************************************************************************)

\* The directories a rule file lies in and the subpaths it lists; no track lies in "c".
LabelDirs == {<<>>, <<"a">>, <<"c">>}
Subpaths == {<<"a">>, <<"b">>, <<"c">>, <<"1.mp3">>}

\* The mappings of a rule file: one key with null or with a list of up to two subpaths,
\* no key at all, and two keys.
LabelContents ==
    {<<Item(k, TRUE, <<>>)>> : k \in {"all_except", "none_except"}}
      \cup {<<Item(k, FALSE, l)>> :
                k \in {"all_except", "none_except"},
                l \in {<<>>} \cup {<<x>> : x \in Subpaths}
                         \cup {<<x, y>> : x \in Subpaths, y \in Subpaths}}
      \cup {<<>>, <<Item("all_except", TRUE, <<>>), Item("none_except", TRUE, <<>>)>>}

LabelLibraries == {[p \in S |-> "rock"] : S \in SUBSET {T1, T2, T3}}

InitLabel ==
    \E db \in LabelLibraries, dir \in LabelDirs, content \in LabelContents :
        Start(db, <<>>, <<TagFile(dir, "foo", content)>>)

\* The script looks the label up, in either form.
RunLabelStatement ==
    /\ pc = "script"
    /\ ip < MaxStatements
    /\ \E form \in Forms : LabelGet("foo", form)
    /\ UNCHANGED script

NextLabel ==
    \/ GenerateStart
    \/ RunLabelStatement

SpecLabel == InitLabel /\ [][NextLabel]_vars

(***************************************************************************)
(* Label resolution with two rule files for "foo", in either order         *)
(***************************************************************************)

\* The mappings of the two rule files: one key, with null, an empty list or one file name.
MergeContents ==
    {<<Item(k, TRUE, <<>>)>> : k \in {"all_except", "none_except"}}
      \cup {<<Item(k, FALSE, l)>> :
                k \in {"all_except", "none_except"},
                l \in {<<>>, << <<"1.mp3">> >>, << <<"2.mp3">> >>, << <<"3.mp3">> >>}}

\* The directories of the two rule files.
MergeDirs == {<<>>, <<"a">>, <<"b">>}

InitMerge ==
    \E db \in LabelLibraries, d1 \in MergeDirs, d2 \in MergeDirs,
       c1 \in MergeContents, c2 \in MergeContents :
        /\ d1 # d2
        /\ Start(db, <<>>, <<TagFile(d1, "foo", c1), TagFile(d2, "foo", c2)>>)

SpecMerge == InitMerge /\ [][NextLabel]_vars

(***************************************************************************)
(* A server that fails listplaylist for one name, for another reason than  *)
(* "No such playlist"                                                      *)
(***************************************************************************)

\* The statements of the scripts run against it: reads and writes of the two playlists.
FaultStatements ==
    {st \in Statements : st.form = "item" /\ st.op \in {"playlist", "write"}}

InitFaults ==
    \E pls \in StoredPlaylists, n \in PlaylistNames :
        StartWith(Library, pls, RootRules, {n})

RunFaultStatement ==
    /\ pc = "script"
    /\ ip < MaxStatements
    /\ \E st \in FaultStatements : Exec(st)
    /\ UNCHANGED script

NextFaults ==
    \/ GenerateStart
    \/ RunFaultStatement
    \/ ScriptEnd
    \/ SyncFetch
    \/ SyncBegin
    \/ SyncSave
    \/ SyncClear
    \/ SyncAdd
    \/ SyncEnd
    \/ SyncNoChange
    \/ SyncDone

SpecFaults == InitFaults /\ [][NextFaults]_vars

(***************************************************************************)
(* The same script run twice: a second cycle after an update that changed  *)
(* nothing                                                                 *)
(***************************************************************************)

\* The statements of the scripts that are run twice.
TwiceStatements ==
    {st \in Statements : st.form = "item" /\ st.name \in PlaylistNames \cup {"rock", "foo"}}

InitTwice ==
    \E pls \in StoredPlaylists : Start(Library, pls, RootRules)

\* First cycle: the script runs a statement, which is recorded as the script's next one.
RecordStatement ==
    /\ pc = "script" /\ cycle = 1
    /\ ip < MaxStatements
    /\ \E st \in TwiceStatements : Exec(st) /\ script' = Append(script, st)

\* Second cycle: the script runs the statement it ran at this place in the first cycle.
ReplayStatement ==
    /\ pc = "script" /\ cycle = 2
    /\ ip < Len(script)
    /\ Exec(script[ip + 1])
    /\ UNCHANGED script

\* The script returns after its last statement.
ScriptEndTwice ==
    /\ cycle = 2 => ip = Len(script)
    /\ ScriptEnd

NextTwice ==
    \/ cycle < 2 /\ GenerateStart
    \/ RecordStatement
    \/ ReplayStatement
    \/ ScriptEndTwice
    \/ SyncFetch
    \/ SyncBegin
    \/ SyncSave
    \/ SyncClear
    \/ SyncAdd
    \/ SyncEnd
    \/ SyncNoChange
    \/ SyncDone
    \/ Idle
    \/ Status
    \/ pc = "idle" /\ UpdateStart
    \/ UpdateFinish /\ mpdDb' = mpdDb

SpecTwice == InitTwice /\ [][NextTwice]_vars

(***************************************************************************)
(* End to end: the script  playlist[n] = label["foo"]  over every catalog  *)
(***************************************************************************)

\* What the server stores when the run starts: nothing, or one playlist.
EndToEndStored ==
    {<<>>} \cup {(n :> c) : n \in PlaylistNames, c \in {<<>>, <<T3>>, <<T1, T3>>, <<T3, T1>>}}

InitEndToEnd ==
    \E db \in LabelLibraries, pls \in EndToEndStored, files \in RuleSets :
        Start(db, pls, files)

\* The two statements of the script: the label is looked up, and what it gave is assigned.
RunEndToEndStatement ==
    /\ pc = "script"
    /\ \/ ip = 0 /\ \E form \in Forms : LabelGet("foo", form)
       \/ ip = 1 /\ \E n \in PlaylistNames : Exec([op |-> "copy", form |-> "item",
                                                     name |-> n, val |-> NoVal])
    /\ UNCHANGED script

NextEndToEnd ==
    \/ GenerateStart
    \/ RunEndToEndStatement
    \/ ScriptEnd
    \/ SyncFetch
    \/ SyncBegin
    \/ SyncSave
    \/ SyncClear
    \/ SyncAdd
    \/ SyncEnd
    \/ SyncNoChange
    \/ SyncDone

SpecEndToEnd == InitEndToEnd /\ [][NextEndToEnd]_vars

(***************************************************************************)
(* The loop of main(): cycle after cycle, the world changing at any time   *)
(***************************************************************************)

\* The statements of the scripts of the loop: reads of the two playlists, of a genre and
\* of a label, every track assigned to one playlist and no track to the other.
LoopStatements ==
    {st \in Statements :
        /\ st.form = "item"
        /\ st.name \in PlaylistNames \cup {"rock", "foo"}
        /\ st.op # "copy"
        /\ st.op = "write" => st.val = (IF st.name = "p" THEN SetVal(all_tracks)
                                        ELSE SetVal({}))}

InitLoop ==
    \E pls \in StoredPlaylists : Start(Library, pls, RootRules)

\* The script of this cycle runs its next statement, whatever it is; the scripts of the
\* loop are one statement shorter than those of a single cycle.
RunLoopStatement ==
    /\ pc = "script"
    /\ ip + 1 < MaxStatements
    /\ \E st \in LoopStatements : Exec(st)
    /\ UNCHANGED script

NextLoop ==
    \/ GenerateStart
    \/ RunLoopStatement
    \/ ScriptEnd
    \/ SyncFetch
    \/ SyncBegin
    \/ SyncSave
    \/ SyncClear
    \/ SyncAdd
    \/ SyncEnd
    \/ SyncNoChange
    \/ SyncDone
    \/ Idle
    \/ Status
    \/ UpdateStart
    \/ UpdateFinish
    \/ EditLabelFiles

SpecLoop == InitLoop /\ [][NextLoop]_vars

\* main() takes its next step when it can, and a scan of the server comes to its end.
SpecLoopLive ==
    /\ InitLoop
    /\ [][NextLoop]_vars
    /\ WF_vars(Idle)
    /\ WF_vars(Status)
    /\ WF_vars(UpdateFinish)

(***************************************************************************)
(* Properties                                                              *)
(***************************************************************************)

\* The value generated_playlists holds for a name.
Generated(name) ==
    generated_playlists[CHOOSE j \in 1..Len(generated_playlists) :
                            generated_playlists[j].name = name].value
GeneratedNames == {generated_playlists[j].name : j \in 1..Len(generated_playlists)}

\* The step is a statement of the script.
StatementStep == pc = "script" /\ ip' = ip + 1

\* C1: a write to a playlist name that was read before in the cycle (the read returned or
\* failed) raises the Conflict KeyError and leaves the cache, the generated playlists and
\* the frozen keys as they were.
C1_WriteAfterReadConflicts ==
    [][(StatementStep /\ last'.op = "write" /\ last'.name \in attempted)
          => /\ last'.exc = "KeyError"
             /\ playlist_cache' = playlist_cache
             /\ generated_playlists' = generated_playlists
             /\ frozen_keys' = frozen_keys]_vars

\* C1's case: a write has just been refused for a name that was read and is cached.
C1_Witness ==
    /\ last.op = "write" /\ last.exc = "KeyError"
    /\ last.name \in attempted
    /\ last.name \in DOMAIN playlist_cache
    /\ last.val # playlist_cache[last.name]

\* C2: a read of a playlist name the script has written returns the value written last,
\* and _lookup (the listplaylist call) is not made, whatever the server stores.
C2_ReadAfterWriteReturnsWritten ==
    (last.op = "playlist" /\ last.name \in GeneratedNames)
        => /\ last.exc = "none"
           /\ last.val = Generated(last.name)
           /\ ~last.looked

\* C2's case: written, another statement, then read, while the server stores something
\* else under the name.
C2_Witness ==
    /\ last.op = "playlist" /\ last.name \in GeneratedNames
    /\ ip = 3
    /\ Len(generated_playlists) = 1
    /\ last.name \in DOMAIN mpdPlaylists
    /\ SeqVal(KnownIdxs(mpdPlaylists[last.name])) # last.val

\* C3: a write succeeds exactly when no read of the name was attempted before in the
\* cycle, whether that read returned or failed; a write that succeeds leaves its value as
\* the generated output; the only failure of a write is the Conflict.
C3_FrozenKeyInvariant ==
    last.op = "write"
        => /\ (last.exc = "none") <=> (last.name \notin attempted)
           /\ last.exc \in {"none", "KeyError"}
           /\ last.exc = "none" => /\ last.name \in GeneratedNames
                                   /\ Generated(last.name) = last.val

\* C3's case: a write refused after a read that failed with NotFound.
C3_Witness ==
    /\ last.op = "write" /\ last.exc = "KeyError"
    /\ last.name \in attempted
    /\ last.name \notin DOMAIN playlist_cache
    /\ last.name \notin DOMAIN mpdPlaylists

\* The indices of S in ascending order.
Ascending(S) ==
    CHOOSE s \in [1..Cardinality(S) -> S] :
        \A a, b \in 1..Cardinality(S) : a < b => s[a] < s[b]

\* The normalized sequence of a value: ascending index order for a set, the given order
\* for a tuple, each index as its path.
Normalized(value) ==
    LET idxs == IF value.kind = "set" THEN Ascending(value.set) ELSE value.seq
    IN  [j \in 1..Len(idxs) |-> all_track_paths[idxs[j] + 1]]

SyncIsOver == pc = "idle" /\ sync.stage = "done" /\ ~foreign

\* C4: when the loop over generated_playlists is over, every generated name is stored on
\* the server with exactly the normalized sequence of its value.
C4_SyncStoresNormalized ==
    SyncIsOver
        => \A n \in GeneratedNames :
              /\ n \in DOMAIN mpdPlaylists
              /\ mpdPlaylists[n] = Normalized(Generated(n))

\* C4's case: a set of two tracks for a playlist that was stored before in the other
\* order, and a second playlist that is empty and was not stored.
C4_Witness ==
    /\ SyncIsOver
    /\ \E n, m \in GeneratedNames :
          /\ Generated(n).kind = "set" /\ Cardinality(Generated(n).set) = 2
          /\ Generated(m) = SetVal({})
          /\ \E j \in 1..Len(calls) : calls[j].cmd = "save" /\ calls[j].name = m
          /\ \E j \in 1..Len(calls) : calls[j].cmd = "playlistclear" /\ calls[j].name = n

\* A tuple in an order that is not ascending has been stored as it is.
C4_WitnessTuple ==
    /\ SyncIsOver
    /\ \E n \in GeneratedNames :
          /\ Generated(n).kind = "seq" /\ Len(Generated(n).seq) = 2
          /\ Generated(n).seq[1] > Generated(n).seq[2]
          /\ \E j \in 1..Len(calls) : calls[j].cmd = "playlistadd" /\ calls[j].name = n

Mutating == {"save", "playlistclear", "playlistadd"}

\* Every mutating call of cs comes after a begin that no end has closed yet, and no
\* command list is begun inside another.
RECURSIVE InsideBatches(_, _)
InsideBatches(cs, open) ==
    IF cs = <<>> THEN TRUE
    ELSE IF Head(cs).cmd = "begin" THEN ~open /\ InsideBatches(Tail(cs), TRUE)
    ELSE IF Head(cs).cmd = "end" THEN open /\ InsideBatches(Tail(cs), FALSE)
    ELSE open /\ InsideBatches(Tail(cs), open)

\* The batch the j-th call belongs to: the begins up to it.
BatchOf(cs, j) == Cardinality({i \in 1..j : cs[i].cmd = "begin"})

CallsAreBatched ==
    /\ InsideBatches(calls, FALSE)
    /\ (pc = "idle" /\ calls # <<>>) => calls[Len(calls)].cmd = "end"
    /\ \A i, j \in 1..Len(calls) :
          (calls[i].cmd \in Mutating /\ calls[j].cmd \in Mutating
              /\ calls[i].name = calls[j].name)
            => BatchOf(calls, i) = BatchOf(calls, j)

\* A step of the loop that changes what the server stores changes one generated name
\* only, and takes it to its complete new contents.
StoredAt(pls, n) == IF n \in DOMAIN pls THEN <<TRUE, pls[n]>> ELSE <<FALSE, <<>>>>

WholePlaylistSteps ==
    (pc = "sync" /\ sync' # sync /\ mpdPlaylists' # mpdPlaylists)
        => \E n \in GeneratedNames :
              /\ \A m \in PlaylistNames \ {n} :
                    StoredAt(mpdPlaylists', m) = StoredAt(mpdPlaylists, m)
              /\ StoredAt(mpdPlaylists', n) = <<TRUE, Normalized(Generated(n))>>

\* C6: every save, playlistclear and playlistadd is sent inside a command list, all of
\* them for one name inside the same one, and what the server stores under a generated
\* name goes from the old contents to the complete new contents in one step.
C6_MutationsAreBatched ==
    [][CallsAreBatched' /\ WholePlaylistSteps]_vars

\* C6's case: a clear and two adds are queued for a playlist and the server still stores
\* its old contents.
C6_Witness ==
    /\ pc = "sync" /\ mpdBatch.open
    /\ Len(mpdBatch.cmds) = 3
    /\ mpdBatch.cmds[1].cmd = "playlistclear"
    /\ mpdPlaylists[SyncName] = sync.old_track_names
    /\ sync.old_track_names # <<>>
    /\ sync.old_track_names # sync.track_names

\* NotFound as the script sees it: a missing key in the keyed form, a missing attribute in
\* the property form.
NotFound(form) == IF form = "attr" THEN "AttributeError" ELSE "IndexError"

\* The tracks of the catalog the server reports the genre for.
TracksOfGenre(name) ==
    {i \in 0..(Len(all_track_paths) - 1) :
        /\ all_track_paths[i + 1] \in DOMAIN mpdDb
        /\ mpdDb[all_track_paths[i + 1]] = name}

HasRuleFile(name) == \E j \in 1..Len(labelFiles) : labelFiles[j].label = name

\* C9: a genre lookup always returns a track set, the catalog's tracks among those the
\* server reports (empty when there is none); a lookup of a label that has no rule file
\* and was never resolved in the cycle fails with NotFound, each time.
C9_GenreNeverFailsLabelNotFound ==
    [][StatementStep
          => /\ last'.op = "genre"
                  => /\ last'.exc = "none"
                     /\ last'.val.kind = "set"
                     /\ last'.looked => last'.val.set = TracksOfGenre(last'.name)
             /\ (last'.op = "label" /\ ~HasRuleFile(last'.name)
                    /\ last'.name \notin DOMAIN label_cache)
                  => /\ last'.exc = NotFound(last'.form)
                     /\ label_cache' = label_cache]_vars

\* C9's case: a genre no track carries has returned the empty set, a genre lookup has
\* dropped a path the catalog does not know, and a label without a rule file has just
\* failed.
C9_Witness ==
    /\ last.op = "label" /\ last.exc = "AttributeError" /\ ~HasRuleFile(last.name)
    /\ "jazz" \in DOMAIN genre_cache /\ genre_cache["jazz"] = SetVal({})
    /\ "rock" \in DOMAIN genre_cache
    /\ \E p \in MpdFind("rock") : P2I(p) = -1

\* C10: a name is resolved successfully at most once in a cycle, and once it has been,
\* every lookup of it, in either form, returns the value of that resolution.
C10_ResolvedOnce ==
    /\ \A a \in Accessors, n \in Names : resolutions[a][n] <= 1
    /\ (last.op \in Accessors /\ resolutions[last.op][last.name] >= 1)
          => /\ last.exc = "none"
             /\ last.val = first_value[last.op][last.name]

\* C10's case: a property-form lookup answered from the cache although a fresh
\* resolution would give something else now.
C10_Witness ==
    /\ last.op = "genre" /\ last.form = "attr" /\ ~last.looked
    /\ resolutions["genre"][last.name] = 1
    /\ GenreLookup(last.name).val # last.val

\* The same for a stored playlist that another client has removed since.
C10_WitnessPlaylist ==
    /\ last.op = "playlist" /\ ~last.looked /\ last.exc = "none"
    /\ resolutions["playlist"][last.name] = 1
    /\ last.name \notin DOMAIN mpdPlaylists

\* The same for a label whose rule file has been edited since.
C10_WitnessLabel ==
    /\ last.op = "label" /\ ~last.looked /\ last.exc = "none"
    /\ resolutions["label"][last.name] = 1
    /\ LabelLookup(last.name).val # last.val

\* AncestorIndex[P]: the indices of the tracks whose path is P or lies under P.
AncestorIndex(P) ==
    {i \in 0..(Len(all_track_paths) - 1) : IsPrefix(P, all_track_paths[i + 1])}

\* The label's only rule file has the one key `key` with a list of n subpaths.
OnlyRule(name, key, n) ==
    /\ Len(RGlob(name)) = 1
    /\ Len(RGlob(name)[1].content) = 1
    /\ RGlob(name)[1].content[1].key = key
    /\ ~RGlob(name)[1].content[1].is_none
    /\ Len(RGlob(name)[1].content[1].list) = n

RuleDir(name) == RGlob(name)[1].dir
RuleList(name) == RGlob(name)[1].content[1].list

\* C7: with `all_except: [x, y]` at D as its only rule file, the label resolves to
\* AncestorIndex[D] minus AncestorIndex[D/x] minus AncestorIndex[D/y].
C7_AllExcept ==
    [][(StatementStep /\ last'.op = "label" /\ last'.looked
            /\ OnlyRule(last'.name, "all_except", 2))
          => /\ last'.exc = "none"
             /\ last'.val = SetVal((AncestorIndex(RuleDir(last'.name))
                                      \ AncestorIndex(RuleDir(last'.name)
                                                        \o RuleList(last'.name)[1]))
                                      \ AncestorIndex(RuleDir(last'.name)
                                                        \o RuleList(last'.name)[2]))]_vars

\* C8: with `none_except: [x]` at D as its only rule file, the label resolves to
\* AncestorIndex[D/x].
C8_NoneExcept ==
    [][(StatementStep /\ last'.op = "label" /\ last'.looked
            /\ OnlyRule(last'.name, "none_except", 1))
          => /\ last'.exc = "none"
             /\ last'.val = SetVal(AncestorIndex(RuleDir(last'.name)
                                                   \o RuleList(last'.name)[1]))]_vars

\* C5: the second of two cycles that run the same script, with nothing changed in
\* between but what the first one sent, sends nothing: no command list, no save, no
\* playlistclear, no playlistadd.
C5_SecondRunSendsNothing ==
    cycle = 2 => calls = <<>>

\* C5's case: the first cycle has sent a clear and adds, the second has run the whole
\* script, which copies what it reads, and its loop is over.
C5_Witness ==
    /\ cycle = 2 /\ SyncIsOver
    /\ ip = Len(script)
    /\ \E j \in 1..Len(prev_calls) : prev_calls[j].cmd = "playlistclear"
    /\ \E j \in 1..Len(prev_calls) : prev_calls[j].cmd = "save"
    /\ \E j \in 1..Len(script) : script[j].op = "copy"

\* The loop is over and it had one playlist to look at.
OneGeneratedDone == pc = "idle" /\ sync.stage = "done" /\ Len(generated_playlists) = 1

\* playlistadd(name, x) for each x of names, in order.
Appends(name, names) == [j \in 1..Len(names) |-> Cmd("playlistadd", name, names[j])]

\* The label's set went to the loop as its paths in ascending index order.
LabelSetSent ==
    /\ Generated(generated_playlists[1].name) = LabelLookup("foo").val
    /\ sync.track_names = Normalized(LabelLookup("foo").val)

\* C11 as stated: for the script playlist[n] = label["foo"], nothing is sent when the
\* stored playlist equals the index-sorted path list; when the playlist is absent and the
\* list is not empty, a create (save) is sent and then one playlistadd per path in order.
C11_CreateThenAppend ==
    OneGeneratedDone
        => /\ LabelSetSent
           /\ (sync.already_exists /\ sync.old_track_names = sync.track_names)
                 => calls = <<>>
           /\ (~sync.already_exists /\ sync.track_names # <<>>)
                 => calls = <<Cmd("begin", "", <<>>),
                              Cmd("save", generated_playlists[1].name, <<>>)>>
                            \o Appends(generated_playlists[1].name, sync.track_names)
                            \o <<Cmd("end", "", <<>>)>>

\* C11, amended: the same, but for an absent playlist and a list that is not empty the
\* command list holds one playlistadd per path in order and nothing else: no create is
\* sent, the first playlistadd makes the playlist.
C11_AppendOnly ==
    OneGeneratedDone
        => /\ LabelSetSent
           /\ (sync.already_exists /\ sync.old_track_names = sync.track_names)
                 => calls = <<>>
           /\ (~sync.already_exists /\ sync.track_names # <<>>)
                 => /\ calls = <<Cmd("begin", "", <<>>)>>
                               \o Appends(generated_playlists[1].name, sync.track_names)
                               \o <<Cmd("end", "", <<>>)>>
                    /\ mpdPlaylists[generated_playlists[1].name] = sync.track_names

\* C11's case: the catalog a/1.mp3, a/2.mp3, b/3.mp3, the rule all_except: [a] at the
\* root, no playlist stored under the name, and b/3.mp3 sent.
C11_Witness ==
    /\ OneGeneratedDone
    /\ all_track_paths = <<T1, T2, T3>>
    /\ labelFiles = RootRules
    /\ ~sync.already_exists
    /\ sync.track_names = <<T3>>
    /\ Len(calls) = 3

\* The other half of the case: the stored playlist was b/3.mp3 already.
C11_WitnessNoChange ==
    /\ OneGeneratedDone
    /\ all_track_paths = <<T1, T2, T3>>
    /\ labelFiles = RootRules
    /\ sync.already_exists
    /\ sync.old_track_names = <<T3>>
    /\ calls = <<>>

\* A cycle after the first begins.
NextCycleBegins == cycle >= 1 /\ cycle' = cycle + 1

\* C12: a cycle after the first begins only when generate_all has returned from the loop
\* of the cycle before with no command list left open, and main() has since received an
\* update event and then read a status without updating_db; no status read after that
\* event said a scan was running without a later event and a later status without one.
C12_LoopOrdering ==
    [][NextCycleBegins
          => /\ pc = "generate"
             /\ sync.stage = "done" /\ ~mpdBatch.open
             /\ Len(heard) >= 2
             /\ heard[Len(heard)] = "clear"
             /\ heard[Len(heard) - 1] = "notified"
             /\ \A j \in 1..Len(heard) : heard[j] = "scanning" => j < Len(heard) - 1]_vars

\* C12's case: the second cycle has begun, after a status that said a scan was running
\* sent main() back to wait for the next event.
C12_Witness ==
    /\ cycle = 2 /\ pc = "script" /\ ip = 0
    /\ prev_calls # <<>>

\* The wait that precedes C12's case.
C12_WitnessWaitedForScan ==
    /\ cycle = 1 /\ pc = "generate"
    /\ heard = <<"notified", "scanning", "notified", "clear">>

\* C13: once idle("update") has returned, main() reaches the next call of generate_all,
\* given that it takes its steps and that a scan of the server ends.
C13_LoopLiveness ==
    (pc = "status") ~> (pc = "generate")

\* C13's case: the event was received while the scan was running, the scan has ended
\* since and nothing else has changed, and main() is waiting for the event of its end.
C13_Witness ==
    /\ pc = "idle" /\ cycle = 1
    /\ heard = <<"notified", "scanning">>
    /\ ~updating_db /\ idle_events
    /\ mpdDb = Library

\* What a lookup gives when nothing is cached: _lookup against the catalog of this cycle
\* and what the server and the rule files hold now.
FreshOutcome(op, form, name) ==
    DbGet(form, <<>>, name,
          IF op = "genre" THEN GenreLookup(name)
          ELSE IF op = "label" THEN LabelLookup(name)
          ELSE PlaylistLookup(name))

\* C14: a cycle begins with the catalog listed anew and with empty caches, frozen keys,
\* ancestor index and generated playlists; a write to a name that no read was attempted
\* on in this cycle succeeds, whatever earlier cycles did with the name; and the first
\* lookup of a name in a cycle (one the cycle has neither resolved nor written) calls
\* _lookup and gives what the present state gives.
C14_NoLeakBetweenCycles ==
    [][/\ cycle' = cycle + 1
             => /\ all_track_paths' = Sorted(DOMAIN mpdDb)
                /\ genre_cache' = <<>> /\ label_cache' = <<>> /\ playlist_cache' = <<>>
                /\ frozen_keys' = {}
                /\ generated_playlists' = <<>>
                /\ ~atbp_cached'
       /\ (StatementStep /\ last'.op = "write" /\ last'.name \notin attempted)
             => last'.exc = "none"
       /\ (StatementStep /\ last'.op \in Accessors
              /\ resolutions[last'.op][last'.name] = 0 /\ last'.name \notin written)
             => /\ last'.looked
                /\ last'.exc = FreshOutcome(last'.op, last'.form, last'.name).exc
                /\ last'.val = FreshOutcome(last'.op, last'.form, last'.name).val]_vars

\* C14's case: in the second cycle, over a catalog that differs from the first cycle's, a
\* write has succeeded for a name the script of the first cycle read.
C14_Witness ==
    /\ cycle = 2 /\ pc = "script"
    /\ last.op = "write" /\ last.exc = "none"
    /\ last.name \in script_read
    /\ all_track_paths = <<T2, T3>>

\* The other half: in the second cycle a genre is resolved against the new catalog.
C14_WitnessFreshGenre ==
    /\ cycle = 2 /\ pc = "script"
    /\ last.op = "genre" /\ last.looked
    /\ last.val = SetVal({0, 1})
    /\ all_track_paths = <<T2, T3>>

\* C16: an exception that leaves the script ends the process before the loop over
\* generated_playlists: nothing has been sent in that cycle, whatever the script assigned
\* before it failed, and from then on nothing is sent, nothing stored changes and no
\* cycle begins, whatever events the server raises.
C16_UncaughtErrorEndsProcess ==
    /\ [][(StatementStep /\ last'.exc # "none" /\ pc' # "script")
             => pc' = "terminated" /\ calls' = <<>>]_vars
    /\ [][pc = "terminated"
             => /\ pc' = "terminated"
                /\ cycle' = cycle
                /\ calls' = calls
                /\ mpdPlaylists' = mpdPlaylists]_vars
    /\ [](pc = "terminated" => calls = <<>> /\ ~mpdBatch.open)

\* C16's case: the script assigned a playlist, then a read failed with NotFound and was
\* not caught; a scan has run and ended since, its event is pending, and nothing happens.
C16_Witness ==
    /\ pc = "terminated"
    /\ written = {"p"}
    /\ last.op = "playlist" /\ last.exc = "IndexError"
    /\ idle_events /\ ~updating_db /\ changes = 1
    /\ "p" \notin DOMAIN mpdPlaylists

\* The same for a Conflict.
C16_WitnessConflict ==
    /\ pc = "terminated"
    /\ last.op = "write" /\ last.exc = "KeyError"
    /\ idle_events

\* C20: every save, playlistclear and playlistadd sent or queued names a playlist the
\* script assigned in this cycle, and no step changes what the server stores under any
\* other name: one that was only read, and one an earlier cycle generated, keep their
\* contents.
C20_SyncTouchesOnlyWritten ==
    /\ [](/\ \A j \in 1..Len(calls) :
                calls[j].cmd \in Mutating => calls[j].name \in written
          /\ \A j \in 1..Len(mpdBatch.cmds) : mpdBatch.cmds[j].name \in written)
    /\ [][\A n \in PlaylistNames \ written' :
             StoredAt(mpdPlaylists', n) = StoredAt(mpdPlaylists, n)]_vars

\* C20's case: the first cycle generated p; the second, over another catalog, read p and
\* assigned only q: q was sent, and p is stored as the first cycle left it.
C20_Witness ==
    /\ cycle = 2 /\ pc = "idle" /\ sync.stage = "done"
    /\ written = {"q"} /\ calls # <<>>
    /\ "p" \in script_read
    /\ \E j \in 1..Len(prev_calls) : prev_calls[j].name = "p"
    /\ all_track_paths = <<T2, T3>>
    /\ mpdPlaylists["p"] = <<T1, T3>>

\* The step is a label lookup that called _lookup.
LabelLookupStep == StatementStep /\ last'.op = "label" /\ last'.looked

\* Some rule file of the label has no key at all, or more than one.
MalformedRule(name) ==
    \E j \in 1..Len(RGlob(name)) : Len(RGlob(name)[j].content) # 1

\* C15: a label lookup that meets a rule file with no key or with more than one fails,
\* and with a fatal error: neither a track set nor the missing-key or missing-attribute
\* error that stands for NotFound.
C15_MalformedIsFatal ==
    [][(LabelLookupStep /\ MalformedRule(last'.name))
          => last'.exc \notin {"none", "IndexError", "AttributeError", "KeyError",
                               "LookupError"}]_vars

\* C18: a label lookup fails with NotFound only when the label has no rule file, and
\* whenever it has rule files, each with exactly one key, it returns a track set.
C18_NotFoundOnlyWithoutRuleFile ==
    [][LabelLookupStep
          => /\ last'.exc = NotFound(last'.form) => RGlob(last'.name) = <<>>
             /\ (RGlob(last'.name) # <<>> /\ ~MalformedRule(last'.name))
                   => last'.exc = "none" /\ last'.val.kind = "set"]_vars

\* The two rule files of the label lie in directories neither of which is the other or
\* above the other, and each has one key.
TwoApartRules(name) ==
    /\ Len(RGlob(name)) = 2
    /\ ~MalformedRule(name)
    /\ ~IsPrefix(RGlob(name)[1].dir, RGlob(name)[2].dir)
    /\ ~IsPrefix(RGlob(name)[2].dir, RGlob(name)[1].dir)

\* What the lookup gives when the traversal finds the two files in the other order.
OtherOrderOutcome(form, name) ==
    DbGet(form, <<>>, name, ApplyTagFiles(<<RGlob(name)[2], RGlob(name)[1]>>, {}))

\* C19: with two rule files in directories that do not contain one another, the lookup
\* gives the same (the same track set, or the same error) whichever file comes first, for
\* every pair of keys and lists.
C19_MergeOrderIndependent ==
    [][(LabelLookupStep /\ TwoApartRules(last'.name))
          => /\ last'.exc = OtherOrderOutcome(last'.form, last'.name).exc
             /\ last'.val = OtherOrderOutcome(last'.form, last'.name).val]_vars

\* C19's case: all_except with a list in one directory, none_except with a list in the
\* other, both with tracks, resolved to a set with tracks of both.
C19_Witness ==
    /\ last.op = "label" /\ last.looked /\ last.exc = "none"
    /\ TwoApartRules("foo")
    /\ RGlob("foo")[1].content[1].key = "all_except"
    /\ RGlob("foo")[2].content[1].key = "none_except"
    /\ ~RGlob("foo")[1].content[1].is_none /\ RGlob("foo")[1].content[1].list # <<>>
    /\ ~RGlob("foo")[2].content[1].is_none /\ RGlob("foo")[2].content[1].list # <<>>
    /\ Cardinality(last.val.set) = 2

\* Where one directory is above the other, the order can decide the outcome.
C19_WitnessOverlapDiffers ==
    /\ last.op = "label" /\ last.looked /\ last.exc = "none"
    /\ Len(RGlob("foo")) = 2 /\ ~MalformedRule("foo")
    /\ OtherOrderOutcome(last.form, "foo").val # last.val

\* C17: when listplaylist fails for another reason than a missing playlist, a read of the
\* script raises that error and not NotFound, the fetch of the loop ends the process
\* instead of taking the playlist for absent, and no mutating call is sent for the name.
C17_OtherErrorsPropagate ==
    [][/\ (StatementStep /\ last'.op = "playlist" /\ last'.looked
              /\ last'.name \in mpdDenied)
            => last'.exc = "CommandError"
       /\ (pc = "sync" /\ sync.stage = "fetch" /\ sync.i <= Len(generated_playlists)
              /\ sync' # sync /\ SyncName \in mpdDenied)
            => pc' = "terminated"
       /\ \A j \in 1..Len(calls') :
              calls'[j].cmd \in Mutating => calls'[j].name \notin mpdDenied]_vars

====
